---- MODULE Spec2Model ----
(***************************************************************************)
(* A model of migration_report.py: the per-experiment worker               *)
(* get_experiment_file_stats, the thread pool of main, the per-session     *)
(* report loop of main, get_session_info and session_exists.               *)
(*                                                                         *)
(* Python values are tagged records: an int n is [int |-> n], a str is     *)
(* [str |-> chars] with chars the sequence of its characters, None is      *)
(* [none |-> TRUE].  A dict is a record; a missing key is a missing field. *)
(***************************************************************************)
EXTENDS Integers, Sequences, FiniteSets, TLC

\* ---------------------------------------------------------------- bounds
\* rows the session query of main may return
MaxRows == 2
\* width of the thread pool (main reads the global MAX_WORKERS, which the
\* file never assigns: the value is whatever the embedding namespace binds)
MAX_WORKERS == 2

\* ------------------------------------------------------- python values
I(n) == [int |-> n]
S(chars) == [str |-> chars]
None == [none |-> TRUE]
IsInt(v) == "int" \in DOMAIN v
IsStr(v) == "str" \in DOMAIN v

\* a computation's outcome: a value, or a raised exception
Ok(v) == [ok |-> TRUE, val |-> v]
Raise(e) == [ok |-> FALSE, exc |-> e]

\* config files of the two systems (migration_report.py:14-15)
XNAT1_CFG == "~/xnat.cfg"
XNAT2_CFG == "~/xnat2.cfg"
System(cfg) == IF cfg = XNAT1_CFG THEN "xnat1" ELSE "xnat2"

\* ------------------------------------------------ the archives' content
\* The two remote systems are read-only snapshots.  A resource is the dict
\* the server returns for it.  E1 is the two-scan experiment with resources
\* (3,1000) and (5,2000); E2 has a resource without file_count; E3 has a
\* resource whose file_count is not numeric; E4 reports its fields as
\* numeric strings and has not been migrated to xnat2.
ExperimentIds == {"E1", "E2", "E3", "E4"}

Res(fc, fs) == [file_count |-> fc, file_size |-> fs]

ScanIds(e) == IF e \in {"E1", "E3"} THEN <<"1", "2">> ELSE <<"1">>

ResourcesOf(e, id) ==
    CASE e = "E1" /\ id = "1" -> << Res(I(3), I(1000)) >>
      [] e = "E1" /\ id = "2" -> << Res(I(5), I(2000)) >>
      [] e = "E2"             -> << [file_size |-> I(7)], Res(I(1), I(10)) >>
      [] e = "E3" /\ id = "1" -> << Res(I(2), I(20)) >>
      [] e = "E3" /\ id = "2" -> << Res(S(<<"x">>), I(4)) >>
      [] OTHER                -> << Res(S(<<"2">>), S(<<"1", "2">>)) >>

ExperimentsOn(sys) == IF sys = "xnat1" THEN ExperimentIds ELSE {"E1", "E2", "E3"}
Label(e) == <<"label", e>>
ProjectOf(e) == IF e \in {"E1", "E2"} THEN "P1" ELSE "P2"
SubjectOf(e) == <<"subject", e>>
SubjectLabelOf(e) == <<"subject_label", e>>

\* the scan dicts of a scan listing: /data/experiments/{e}/scans
ScanDicts(e) ==
    [i \in 1..Len(ScanIds(e)) |-> [ID |-> ScanIds(e)[i], URI |-> <<e, ScanIds(e)[i]>>]]

\* ------------------------------------------------------ HTTP responses
\* The body of a listing is {envelope: {"Result": [...]}}; env is the key the
\* server uses for the envelope.  A response may also be unsuccessful, or
\* successful with a body that is not JSON.
Envelopes == {"ResultSet", "ResultsSet"}
JsonBody(env, lst) == [json |-> TRUE, dict |-> (env :> [Result |-> lst])]
TextBody == [json |-> FALSE]
Listing(env, lst) ==
    { [ok |-> TRUE, body |-> JsonBody(env, lst)],
      [ok |-> TRUE, body |-> TextBody],
      [ok |-> FALSE, body |-> TextBody] }
NotFound == { [ok |-> FALSE, body |-> TextBody] }

\* GET /data/experiments/{e}/scans on system sys
ScanResponses(sys, e, env) ==
    IF e \in ExperimentsOn(sys) THEN Listing(env, ScanDicts(e)) ELSE NotFound
\* GET {URI}/resources on system sys
ResourceResponses(sys, uri, env) ==
    IF uri[1] \in ExperimentsOn(sys)
    THEN Listing(env, ResourcesOf(uri[1], uri[2])) ELSE NotFound

\* ---------------------------------------------------- python primitives
\* d[key]
Subscript(d, key) == IF key \in DOMAIN d THEN Ok(d[key]) ELSE Raise("KeyError")
\* d.get(key, default)
Get(d, key, default) == IF key \in DOMAIN d THEN d[key] ELSE default
\* response.json()
PyJson(response) ==
    IF response.body.json THEN Ok(response.body.dict) ELSE Raise("JSONDecodeError")

\* sum(vals): 0 + vals[1] + ... ; int + str raises TypeError
RECURSIVE SumFrom(_, _, _)
SumFrom(acc, vals, i) ==
    IF i > Len(vals) THEN Ok(acc)
    ELSE IF IsInt(vals[i]) THEN SumFrom(acc + vals[i].int, vals, i + 1)
    ELSE Raise("TypeError")
PySum(vals) == SumFrom(0, vals, 1)

\* int(s) of a str: its decimal value, ValueError unless all digits
Digit(ch) ==
    CASE ch = "0" -> 0 [] ch = "1" -> 1 [] ch = "2" -> 2 [] ch = "3" -> 3
      [] ch = "4" -> 4 [] ch = "5" -> 5 [] ch = "6" -> 6 [] ch = "7" -> 7
      [] ch = "8" -> 8 [] ch = "9" -> 9 [] OTHER -> -1
RECURSIVE ParseDigits(_, _, _)
ParseDigits(acc, chars, i) ==
    IF i > Len(chars) THEN Ok(acc)
    ELSE IF Digit(chars[i]) < 0 THEN Raise("ValueError")
    ELSE ParseDigits(10 * acc + Digit(chars[i]), chars, i + 1)
\* int(v)
PyInt(v) ==
    IF IsInt(v) THEN Ok(v.int)
    ELSE IF IsStr(v) /\ Len(v.str) > 0 THEN ParseDigits(0, v.str, 1)
    ELSE IF IsStr(v) THEN Raise("ValueError")
    ELSE Raise("TypeError")

\* ------------------------------------------------------------- state
\* names main reads as globals although the file never assigns them
GlobalNames == {"MAX_WORKERS", "start_time", "pd", "report_data"}

VARIABLES
    namespace,         \* per GlobalName: "bound", "unbound", or "unread" so far
    envelope,          \* the envelope key the servers use in listing bodies
    mpc,               \* main's position
    abortLine,         \* line at which the exception that ends main was raised, 0 if none
    mainConn,          \* xnat1, xnat2 of main: "none" or "open"
    experiments_table, \* main: the rows the session query returned
    experiment_tasks,  \* main: the task tuples
    worker,            \* per submitted future: the worker's frame and outcome
    yielded,           \* futures as_completed has yielded
    processed_count,   \* main
    results,           \* main
    stats_csv,         \* rows written to xnat_experiment_file_stats_with_scans.csv
    experiments,       \* main: the collection iterated by the report loop
    c,                 \* main: report loop counter
    report_data,       \* the global list the report loop appends to
    report_csv,        \* rows written to xnat_migration_report.csv
    est,               \* the frame of a call of estimate_session_size
    probe              \* the frame of a call of session_exists made by its test

mainVars == << namespace, envelope, mpc, abortLine, mainConn, experiments_table,
              experiment_tasks, worker, yielded, processed_count, results, stats_csv,
              experiments, c, report_data, report_csv >>

\* the frames of the functions when called on their own
callVars == << est, probe >>

vars == << mainVars, callVars >>

envVars == << namespace, envelope >>
poolVars == << experiments_table, experiment_tasks, worker, yielded, processed_count, results >>
reportVars == << stats_csv, experiments, c, report_data, report_csv >>

\* a CSV file: not written, or written with the rows of a frame
NotWritten == [written |-> FALSE, rows |-> <<>>]
Csv(rows) == [written |-> TRUE, rows |-> rows]

\* Whether the embedding namespace binds a global is fixed before the run and
\* is the same at every read; it is resolved here at the first read of the name.
Bindings(name) ==
    IF namespace[name] = "unread" THEN BOOLEAN ELSE {namespace[name] = "bound"}
Read(ns, name, isBound) ==
    [ns EXCEPT ![name] = IF isBound THEN "bound" ELSE "unbound"]

\* --------------------------------------- get_experiment_file_stats
\* the dict returned at lines 54-60, for the task tuple
\* (experiment_id, project_id, subject_id, subject_label)
SuccessRow(task, files, size) ==
    [ project_id |-> task[2], subject_id |-> task[3], experiment_id |-> task[1],
      num_files |-> I(files), total_size_bytes |-> I(size) ]

\* the dict returned at lines 63-70
ErrorRow(task, e) ==
    [ project_id |-> task[2], subject_id |-> task[3], experiment_id |-> task[1],
      num_files |-> None, total_size_bytes |-> None, error |-> e ]

\* the handler narrowed to `except AssertionError`
IsExceptionNarrow(e) == e = "AssertionError"

\* `except Exception` catches every exception class but the BaseException-only ones
IsException(e) == e \notin {"KeyboardInterrupt", "SystemExit", "GeneratorExit"}

\* response.json()['ResultsSet']['Result']  (lines 37 and 47)
ResultList(response) ==
    LET j == PyJson(response) IN
    IF ~j.ok THEN j
    ELSE LET rs == Subscript(j.val, "ResultsSet") IN
         IF ~rs.ok THEN rs ELSE Subscript(rs.val, "Result")

\* sum(res.get(key, 0) for res in resources_list)  (lines 51, 52)
SumField(resources_list, key) ==
    PySum([i \in 1..Len(resources_list) |-> Get(resources_list[i], key, I(0))])

\* no Interface object
NoHandle == <<"", 0>>

\* one Interface object per config, created once and handed to every caller
InterfaceShared(cfg, caller) == <<cfg, 0>>

\* the object a call of Interface(config=cfg) constructs: a new one at every
\* call, named here by the config and the frame that called (0: main, t: the
\* frame of pool task t)
Interface(cfg, caller) == <<cfg, caller>>

\* a worker frame before its thread starts (line 25: thread_xnat_interface = None).
\* thread_xnat_interface is "None", "open" or "closed", and handle the
\* Interface object it is bound to; ret is what the future
\* will hold; raised records the line and class of the exception that left the
\* try block (<<0, "">>: none), disconnects the calls of disconnect(), and
\* disconnect_error whether line 76 logged one; requests counts the listing
\* requests sent (lines 34, 44).
NewWorker ==
    [ pc |-> "queued", thread_xnat_interface |-> "None", response |-> None,
      scans_list |-> <<>>, k |-> 0,
      total_experiment_files |-> 0, total_experiment_size_bytes |-> 0,
      ret |-> None, raised |-> <<0, "">>, disconnects |-> 0,
      disconnect_error |-> FALSE, handle |-> NoHandle, requests |-> 0 ]

\* the except clause returning the sums accumulated so far in the error row
ExceptPartial(wk, task, line, e) ==
    [ wk EXCEPT !.pc = "finally", !.raised = <<line, e>>,
                !.ret = Ok([ErrorRow(task, e) EXCEPT
                              !.num_files = I(wk.total_experiment_files),
                              !.total_size_bytes = I(wk.total_experiment_size_bytes)]) ]

\* an exception e raised at line `line` inside the try: the except clause
\* (61-70) turns it into the error row; the finally clause runs next
Except(wk, task, line, e) ==
    [ wk EXCEPT !.pc = "finally", !.raised = <<line, e>>,
                !.ret = IF IsException(e) THEN Ok(ErrorRow(task, e)) ELSE Raise(e) ]

\* the return statement of lines 54-60; the finally clause runs next
Return(wk, task) ==
    [ wk EXCEPT !.pc = "finally",
                !.ret = Ok(SuccessRow(task, wk.total_experiment_files,
                                      wk.total_experiment_size_bytes)) ]

Running == {"get_scans", "pdb", "get_resources", "finally"}
Futures == DOMAIN worker

\* the config main hands to every worker (line 123)
WorkerConfig == XNAT2_CFG

\* A pool thread takes the oldest queued work item and runs lines 25-27.
Start(t) ==
    /\ t \in Futures /\ worker[t].pc = "queued"
    /\ \A u \in Futures : u < t => worker[u].pc # "queued"
    /\ Cardinality({u \in Futures : worker[u].pc \in Running}) < MAX_WORKERS
    /\ \E opened \in BOOLEAN :
         worker' = [worker EXCEPT ![t] =
            IF opened
            THEN [@ EXCEPT !.pc = "get_scans", !.thread_xnat_interface = "open",
                           !.handle = Interface(WorkerConfig, t)]
            ELSE Except(@, experiment_tasks[t], 27, "ConnectionError")]
    /\ UNCHANGED << envVars, mpc, abortLine, mainConn, callVars, experiments_table, experiment_tasks, yielded,
                    processed_count, results, reportVars >>

\* lines 34-36: the scan listing, the assert, and arrival at pdb.set_trace()
GetScans(t) ==
    /\ t \in Futures /\ worker[t].pc = "get_scans"
    /\ \E response \in ScanResponses(System(WorkerConfig), experiment_tasks[t][1], envelope) :
         worker' = [worker EXCEPT ![t] =
            IF response.ok
            THEN [@ EXCEPT !.pc = "pdb", !.response = response, !.requests = @ + 1]
            ELSE Except([@ EXCEPT !.requests = @ + 1], experiment_tasks[t], 35,
                        "AssertionError")]
    /\ UNCHANGED << envVars, mpc, abortLine, mainConn, callVars, experiments_table, experiment_tasks, yielded,
                    processed_count, results, reportVars >>

\* someone at the terminal answers the debugger prompt with `continue`:
\* line 37, and with no scans the return of lines 54-60
PdbContinue(t) ==
    /\ t \in Futures /\ worker[t].pc = "pdb"
    /\ LET lst == ResultList(worker[t].response) IN
       worker' = [worker EXCEPT ![t] =
          IF ~lst.ok THEN Except(@, experiment_tasks[t], 37, lst.exc)
          ELSE IF Len(lst.val) = 0 THEN Return(@, experiment_tasks[t])
          ELSE [@ EXCEPT !.pc = "get_resources", !.scans_list = lst.val, !.k = 1]]
    /\ UNCHANGED << envVars, mpc, abortLine, mainConn, callVars, experiments_table, experiment_tasks, yielded,
                    processed_count, results, reportVars >>

\* the debugger prompt is answered with `quit`, or stdin is at end of file:
\* bdb raises BdbQuit inside the try
PdbQuit(t) ==
    /\ t \in Futures /\ worker[t].pc = "pdb"
    /\ worker' = [worker EXCEPT ![t] = Except(@, experiment_tasks[t], 36, "BdbQuit")]
    /\ UNCHANGED << envVars, mpc, abortLine, mainConn, callVars, experiments_table, experiment_tasks, yielded,
                    processed_count, results, reportVars >>

\* one iteration of the loop of lines 40-52, and after the last the return
ScanStep(wk, task, resources_resp) ==
    IF ~resources_resp.ok THEN Except(wk, task, 46, "AssertionError")
    ELSE LET lst == ResultList(resources_resp) IN
    IF ~lst.ok THEN Except(wk, task, 47, lst.exc)
    ELSE LET files == SumField(lst.val, "file_count") IN
    IF ~files.ok THEN Except(wk, task, 51, files.exc)
    ELSE LET size == SumField(lst.val, "file_size") IN
    IF ~size.ok THEN Except(wk, task, 52, size.exc)
    ELSE LET summed ==
               [ wk EXCEPT !.total_experiment_files = @ + files.val,
                           !.total_experiment_size_bytes = @ + size.val ] IN
         IF wk.k = Len(wk.scans_list) THEN Return(summed, task)
         ELSE [summed EXCEPT !.k = @ + 1]

GetResources(t) ==
    /\ t \in Futures /\ worker[t].pc = "get_resources"
    /\ \E resources_resp \in
            ResourceResponses(System(WorkerConfig),
                              worker[t].scans_list[worker[t].k].URI, envelope) :
         worker' = [worker EXCEPT ![t] =
            ScanStep([@ EXCEPT !.requests = @ + 1], experiment_tasks[t], resources_resp)]
    /\ UNCHANGED << envVars, mpc, abortLine, mainConn, callVars, experiments_table, experiment_tasks, yielded,
                    processed_count, results, reportVars >>

\* What disconnect() may do, as <<raised, state of the connection after>>:
\* close the session; or raise, which lines 75-76 only log, with the session
\* closed or still open on the server.
DisconnectOutcomes == { <<FALSE, "closed">>, <<TRUE, "closed">>, <<TRUE, "open">> }

\* disconnect() moved from the finally clause to the end of the try block:
\* it runs on the success path only
FinallyOnSuccessOnly(t) ==
    /\ t \in DOMAIN worker /\ worker[t].pc = "finally"
    /\ IF worker[t].thread_xnat_interface = "open" /\ worker[t].raised[1] = 0
       THEN \E outcome \in { <<FALSE, "closed">>, <<TRUE, "closed">>, <<TRUE, "open">> } :
              worker' = [worker EXCEPT ![t] =
                 [@ EXCEPT !.pc = "returned", !.thread_xnat_interface = outcome[2],
                           !.disconnects = @ + 1, !.disconnect_error = outcome[1]]]
       ELSE worker' = [worker EXCEPT ![t].pc = "returned"]
    /\ UNCHANGED << namespace, envelope, mpc, abortLine, mainConn, callVars, experiments_table, experiment_tasks,
                    yielded, processed_count, results, stats_csv, experiments, c,
                    report_data, report_csv >>

\* lines 71-76, after which the future is done
Finally(t) ==
    /\ t \in Futures /\ worker[t].pc = "finally"
    /\ IF worker[t].thread_xnat_interface = "open"
       THEN \E outcome \in DisconnectOutcomes :
              worker' = [worker EXCEPT ![t] =
                 [@ EXCEPT !.pc = "returned", !.thread_xnat_interface = outcome[2],
                           !.disconnects = @ + 1, !.disconnect_error = outcome[1]]]
       ELSE worker' = [worker EXCEPT ![t].pc = "returned"]
    /\ UNCHANGED << envVars, mpc, abortLine, mainConn, callVars, experiments_table, experiment_tasks, yielded,
                    processed_count, results, reportVars >>

\* ------------------------------------------------ get_session_info
\* exp.scans().resources(): every resource of every scan of the experiment
RECURSIVE ResourcesFrom(_, _)
ResourcesFrom(e, i) ==
    IF i > Len(ScanIds(e)) THEN <<>>
    ELSE ResourcesOf(e, ScanIds(e)[i]) \o ResourcesFrom(e, i + 1)

\* an exception together with the line of get_session_info that raised it
RaisedAt(outcome, line) == [ok |-> FALSE, exc |-> outcome.exc, line |-> line]

\* the loop of lines 88-91 from resource i on; sums are <<file_size, file_count>>
RECURSIVE SessionSums(_, _, _, _)
SessionSums(resources, i, file_size, file_count) ==
    IF i > Len(resources) THEN Ok(<<file_size, file_count>>)
    ELSE LET fs == Subscript(resources[i], "file_size") IN
         IF ~fs.ok THEN RaisedAt(fs, 90)
         ELSE LET fsInt == PyInt(fs.val) IN
         IF ~fsInt.ok THEN RaisedAt(fsInt, 90)
         ELSE LET fc == Subscript(resources[i], "file_count") IN
         IF ~fc.ok THEN RaisedAt(fc, 91)
         ELSE LET fcInt == PyInt(fc.val) IN
         IF ~fcInt.ok THEN RaisedAt(fcInt, 91)
         ELSE SessionSums(resources, i + 1, file_size + fsInt.val, file_count + fcInt.val)

\* lines 78-92, on the source system; fetched: the remote calls of lines
\* 80-85 and 89 are answered
get_session_info(exp, fetched) ==
    LET sums == SessionSums(ResourcesFrom(exp, 1), 1, 0, 0) IN
    IF ~fetched THEN RaisedAt(Raise("ConnectionError"), 85)
    ELSE IF ~sums.ok THEN sums
    ELSE Ok([ project_label |-> ProjectOf(exp), subject_label |-> SubjectLabelOf(exp),
              experiment_label |-> Label(exp),
              file_count |-> sums.val[2], file_size |-> sums.val[1] ])

\* lines 94-95
session_exists(xnat_interface, session_label) ==
    \E e \in ExperimentsOn(System(xnat_interface)) : Label(e) = session_label

\* ------------------------------------------------------------- main
Abort(line) == mpc' = "aborted" /\ abortLine' = line

\* lines 101 and 102: Interface(config=...) of the two systems
OpenInterface(cfg) ==
    /\ mpc = (IF cfg = XNAT1_CFG THEN "open_xnat1" ELSE "open_xnat2")
    /\ \E opened \in BOOLEAN :
         IF opened
         THEN /\ mainConn' = [mainConn EXCEPT ![System(cfg)] = "open"]
              /\ mpc' = (IF cfg = XNAT1_CFG THEN "open_xnat2" ELSE "select")
              /\ UNCHANGED abortLine
         ELSE /\ Abort(IF cfg = XNAT1_CFG THEN 101 ELSE 102)
              /\ UNCHANGED mainConn
    /\ UNCHANGED << envVars, poolVars, reportVars, callVars >>

\* the projection of line 105
Projection == {"project", "subject_id", "session_id"}

\* a row of the table returned by search_object.all(), with columns cols
QueryRow(e, cols) ==
    [ col \in cols |-> CASE col = "project" -> ProjectOf(e)
                         [] col = "subject_id" -> SubjectOf(e)
                         [] col = "session_id" -> e
                         [] OTHER -> SubjectLabelOf(e) ]

\* sequences of at most n distinct members of elems
DistinctSeqs(elems, n) ==
    { s \in UNION { [1..m -> elems] : m \in 0..n } :
        \A i, j \in DOMAIN s : i # j => s[i] # s[j] }

\* the tables the query may return: up to MaxRows distinct sessions of xnat1,
\* with the projected columns and, if the server adds it, subject_label
Tables ==
    { [i \in 1..Len(ids) |-> QueryRow(ids[i], cols)] :
        ids \in DistinctSeqs(ExperimentsOn("xnat1"), MaxRows),
        cols \in { Projection, Projection \cup {"subject_label"} } }

\* lines 108-114
RECURSIVE BuildTasks(_, _, _)
BuildTasks(table, i, tasks) ==
    IF i > Len(table) THEN Ok(tasks)
    ELSE LET experiment_id == Subscript(table[i], "session_id") IN
         IF ~experiment_id.ok THEN experiment_id
         ELSE LET project_id == Subscript(table[i], "project") IN
         IF ~project_id.ok THEN project_id
         ELSE LET subject_id == Subscript(table[i], "subject_id") IN
         IF ~subject_id.ok THEN subject_id
         ELSE LET subject_label == Subscript(table[i], "subject_label") IN
         IF ~subject_label.ok THEN subject_label
         ELSE BuildTasks(table, i + 1,
                         Append(tasks, << experiment_id.val, project_id.val,
                                          subject_id.val, subject_label.val >>))

\* the failure of the query logged, and main carrying on with an empty list
QueryFailureLogged ==
    /\ mpc' = "submit" /\ abortLine' = 106
    /\ UNCHANGED << experiments_table, experiment_tasks, namespace >>

\* the query of lines 105-106 raises: nothing in main catches it
QueryFailure ==
    /\ Abort(106)
    /\ UNCHANGED << experiments_table, experiment_tasks, namespace >>

\* lines 105-117: the session query, the task list, the two prints
Select ==
    /\ mpc = "select"
    /\ \E answered \in BOOLEAN, table \in Tables,
          hasMaxWorkers \in Bindings("MAX_WORKERS") :
         LET built == BuildTasks(table, 1, <<>>) IN
         IF ~answered
         THEN QueryFailure
         ELSE IF ~built.ok
         THEN /\ Abort(113) /\ experiments_table' = table
              /\ UNCHANGED << experiment_tasks, namespace >>
         ELSE /\ experiments_table' = table
              /\ experiment_tasks' = built.val
              /\ namespace' = Read(namespace, "MAX_WORKERS", hasMaxWorkers)
              /\ IF hasMaxWorkers
                 THEN mpc' = "submit" /\ UNCHANGED abortLine
                 ELSE Abort(117)
    /\ UNCHANGED << envelope, mainConn, callVars, worker, yielded, processed_count, results,
                    reportVars >>

\* lines 119-124: the pool is created and every task submitted
Submit ==
    /\ mpc = "submit"
    /\ worker' = [t \in 1..Len(experiment_tasks) |-> NewWorker]
    /\ mpc' = "as_completed"
    /\ UNCHANGED << envVars, abortLine, mainConn, callVars, experiments_table, experiment_tasks, yielded,
                    processed_count, results, reportVars >>

\* exp_id_current, _, _ = futures[future]  (line 128)
Unpack3(tuple) == IF Len(tuple) = 3 THEN Ok(tuple[1]) ELSE Raise("ValueError")

\* lines 126-136 for one completed future; line 128 is outside the try, so
\* its exception leaves the loop and the with block
Collect(t) ==
    /\ mpc = "as_completed"
    /\ t \in Futures \ yielded /\ worker[t].pc = "returned"
    /\ processed_count' = processed_count + 1
    /\ IF Unpack3(experiment_tasks[t]).ok
       THEN /\ results' = Append(results, IF worker[t].ret.ok
                                          THEN worker[t].ret.val ELSE None)
            /\ yielded' = yielded \cup {t}
            /\ UNCHANGED << mpc, abortLine >>
       ELSE /\ mpc' = "shutdown" /\ abortLine' = 128
            /\ UNCHANGED << results, yielded >>
    /\ UNCHANGED << envVars, mainConn, callVars, experiments_table, experiment_tasks, worker, reportVars >>

\* as_completed is exhausted
LoopEnd ==
    /\ mpc = "as_completed" /\ yielded = Futures
    /\ mpc' = "shutdown"
    /\ UNCHANGED << envVars, abortLine, mainConn, callVars, poolVars, reportVars >>

\* leaving the with block: executor.shutdown(wait=True) returns once every
\* submitted task has finished; a pending exception then leaves main
Shutdown ==
    /\ mpc = "shutdown"
    /\ \A t \in Futures : worker[t].pc = "returned"
    /\ mpc' = (IF abortLine # 0 THEN "aborted" ELSE "after_pool")
    /\ UNCHANGED << envVars, abortLine, mainConn, callVars, poolVars, reportVars >>

\* the filter of line 141 without its test of the 'error' key
IsSuccessfulAnyRow(r) == r # None

\* r is not None and 'error' not in r  (line 141)
IsSuccessful(r) == r # None /\ "error" \notin DOMAIN r
successful_results(rs) == SelectSeq(rs, IsSuccessful)

\* df[column].sum() over the rows of a frame (lines 148, 149)
RECURSIVE ColumnSum(_, _, _)
ColumnSum(rows, column, i) ==
    IF i > Len(rows) THEN 0 ELSE rows[i][column].int + ColumnSum(rows, column, i + 1)

\* lines 138-158: the summary of the pooled phase and its CSV file
AfterPool ==
    /\ mpc = "after_pool"
    /\ \E hasStartTime \in Bindings("start_time"), hasPd \in Bindings("pd") :
         LET readStart == Read(namespace, "start_time", hasStartTime) IN
         IF ~hasStartTime
         THEN Abort(139) /\ namespace' = readStart /\ UNCHANGED stats_csv
         ELSE IF Len(successful_results(results)) = 0
         THEN /\ mpc' = "experiments" /\ namespace' = readStart
              /\ UNCHANGED << abortLine, stats_csv >>
         ELSE /\ namespace' = Read(readStart, "pd", hasPd)
              /\ IF ~hasPd
                 THEN Abort(144) /\ UNCHANGED stats_csv
                 ELSE /\ stats_csv' = Csv(successful_results(results))
                      /\ mpc' = "experiments"
                      /\ UNCHANGED abortLine
    /\ UNCHANGED << envelope, mainConn, callVars, poolVars, experiments, c, report_data, report_csv >>

\* the collections the server may list: the experiments xnat1 holds at the
\* time of the run, up to MaxRows of the catalogue, in the server's order
Orders == DistinctSeqs(ExperimentsOn("xnat1"), MaxRows)

\* lines 166-173: the collection of all experiments of xnat1 is fetched when
\* the for statement starts iterating it
ListExperiments ==
    /\ mpc = "experiments"
    /\ \E answered \in BOOLEAN, order \in Orders :
         IF answered
         THEN experiments' = order /\ mpc' = "report_loop" /\ UNCHANGED abortLine
         ELSE Abort(173) /\ UNCHANGED experiments
    /\ UNCHANGED << envVars, mainConn, callVars, poolVars, stats_csv, c, report_data, report_csv >>

\* the dict appended at lines 187-196
ReportRow(info, exists_on_xnat2) ==
    [ project_label |-> info.project_label, subject_label |-> info.subject_label,
      experiment_label |-> info.experiment_label, file_count |-> info.file_count,
      file_size |-> info.file_size, exists_on_xnat2 |-> exists_on_xnat2 ]

\* one iteration of the loop of lines 173-196; nothing in it is inside a try
ReportSession ==
    /\ mpc = "report_loop" /\ c < Len(experiments)
    /\ \E fetched \in BOOLEAN, probed \in BOOLEAN,
          hasReportData \in Bindings("report_data") :
         LET exp == experiments[c + 1]
             info == get_session_info(exp, fetched) IN
         IF ~info.ok
         THEN Abort(info.line) /\ UNCHANGED << c, report_data, namespace >>
         ELSE /\ c' = c + 1
              /\ IF ~probed
                 THEN Abort(184) /\ UNCHANGED << report_data, namespace >>
                 ELSE IF ~hasReportData
                 THEN /\ Abort(187) /\ UNCHANGED report_data
                      /\ namespace' = Read(namespace, "report_data", FALSE)
                 ELSE /\ namespace' = Read(namespace, "report_data", TRUE)
                      /\ report_data' =
                           Append(report_data,
                                  ReportRow(info.val,
                                            session_exists(XNAT2_CFG,
                                                           info.val.experiment_label)))
                      /\ UNCHANGED << mpc, abortLine >>
    /\ UNCHANGED << envelope, mainConn, callVars, poolVars, stats_csv, experiments, report_csv >>

\* lines 198-206
WriteReport ==
    /\ mpc = "report_loop" /\ c = Len(experiments)
    /\ \E hasPd \in Bindings("pd"), hasReportData \in Bindings("report_data") :
         LET readPd == Read(namespace, "pd", hasPd) IN
         IF ~hasPd
         THEN Abort(199) /\ namespace' = readPd /\ UNCHANGED report_csv
         ELSE /\ namespace' = Read(readPd, "report_data", hasReportData)
              /\ IF hasReportData
                 THEN report_csv' = Csv(report_data) /\ mpc' = "done" /\ UNCHANGED abortLine
                 ELSE Abort(199) /\ UNCHANGED report_csv
    /\ UNCHANGED << envelope, mainConn, callVars, poolVars, stats_csv, experiments, c, report_data >>

\* ------------------------------------------- estimate_session_size
\* migration_report.py does not define estimate_session_size: its test calls
\* estimate_session_size(experiment, use_threads=True, max_workers=4).  The
\* definitions of this section follow the Size Estimator of the design.

\* files an experiment may hold
MaxFiles == 3

\* the key variants probed for a file's size, in order
SizeKeys == << "Size", "size", "FileSize", "length", "bytes" >>

\* attribute sets a file may have: a size under the first key, a size under
\* the second, a first key that does not parse (a later key is not looked
\* at), and no size key
FileAttributes ==
    { [Size |-> S(<<"7">>)],
      [size |-> S(<<"1", "2">>)],
      [Size |-> S(<<"x">>), bytes |-> S(<<"5">>)],
      [name |-> S(<<"f">>)] }

FileSets == UNION { [1..n -> FileAttributes] : n \in 0..MaxFiles }

\* worker counts of the pool
WorkerCounts == {1, 4, 8}

\* the size of one file: the first key variant present, parsed as an
\* integer; 0 when none is present or the value does not parse
RECURSIVE ProbeSize(_, _)
ProbeSize(attributes, i) ==
    IF i > Len(SizeKeys) THEN 0
    ELSE IF SizeKeys[i] \in DOMAIN attributes
    THEN LET parsed == PyInt(attributes[SizeKeys[i]]) IN
         IF parsed.ok THEN parsed.val ELSE 0
    ELSE ProbeSize(attributes, i + 1)

\* sequential mode: the sizes of the files summed in traversal order
RECURSIVE SequentialTotal(_, _)
SequentialTotal(files, i) ==
    IF i > Len(files) THEN 0
    ELSE ProbeSize(files[i], 1) + SequentialTotal(files, i + 1)

\* the running total replaced by the size that just arrived
AccumulateOverwrite(total, size) == size

\* concurrent mode: a finished fetch is added to the running total
Accumulate(total, size) == total + size

\* the frame when estimate_session_size is not being called
EstIdle ==
    [ pc |-> "idle", files |-> <<>>, use_threads |-> FALSE, max_workers |-> 1,
      traversed |-> FALSE, fetch |-> <<>>, total |-> 0 ]

\* a call of estimate_session_size on an experiment holding `files`
EstCall(files, use_threads, max_workers) ==
    [ pc |-> "traverse", files |-> files, use_threads |-> use_threads,
      max_workers |-> max_workers, traversed |-> FALSE,
      fetch |-> [i \in 1..Len(files) |-> "queued"], total |-> 0 ]

\* the traversal pass collects the file handles, or throws and the estimate is 0
EstTraverse ==
    /\ est.pc = "traverse"
    /\ \E thrown \in BOOLEAN :
         est' = IF thrown THEN [est EXCEPT !.pc = "done"]
                ELSE [est EXCEPT !.traversed = TRUE,
                                 !.pc = IF est.use_threads THEN "pool" ELSE "sequential"]
    /\ UNCHANGED << mainVars, probe >>

\* sequential mode
EstSequential ==
    /\ est.pc = "sequential"
    /\ est' = [est EXCEPT !.pc = "done", !.total = SequentialTotal(est.files, 1),
                          !.fetch = [i \in 1..Len(est.files) |-> "done"]]
    /\ UNCHANGED << mainVars, probe >>

\* concurrent mode: a pool thread takes the oldest queued fetch
EstDispatch(i) ==
    /\ est.pc = "pool" /\ i \in DOMAIN est.fetch /\ est.fetch[i] = "queued"
    /\ \A j \in DOMAIN est.fetch : j < i => est.fetch[j] # "queued"
    /\ Cardinality({j \in DOMAIN est.fetch : est.fetch[j] = "running"}) < est.max_workers
    /\ est' = [est EXCEPT !.fetch[i] = "running"]
    /\ UNCHANGED << mainVars, probe >>

\* concurrent mode: a fetch completes and its size is summed
EstComplete(i) ==
    /\ est.pc = "pool" /\ i \in DOMAIN est.fetch /\ est.fetch[i] = "running"
    /\ est' = [est EXCEPT !.fetch[i] = "done",
                          !.total = Accumulate(@, ProbeSize(est.files[i], 1))]
    /\ UNCHANGED << mainVars, probe >>

\* concurrent mode: every fetch has completed
EstReturn ==
    /\ est.pc = "pool" /\ \A i \in DOMAIN est.fetch : est.fetch[i] = "done"
    /\ est' = [est EXCEPT !.pc = "done"]
    /\ UNCHANGED << mainVars, probe >>

\* ------------------------------------------- session_exists, called
\* no call of session_exists is under way
NoProbe == [pc |-> "idle", args |-> <<>>, result |-> Ok(FALSE)]

\* session_exists(*args): the def of line 94 takes two positional parameters
CallSessionExists(args) ==
    IF Len(args) = 2 THEN Ok(session_exists(args[1], args[2])) ELSE Raise("TypeError")

\* projects of the archives; P3 has no subject
Projects == {"P1", "P2", "P3"}

\* labels asked for: those of the experiments, the same in another case, and
\* one no experiment has
UpperLabel(e) == <<"LABEL", e>>
SessionLabels ==
    { Label(e) : e \in ExperimentIds } \cup { UpperLabel(e) : e \in ExperimentIds }
        \cup { Label("E0") }

\* the calls: session_exists(xnat, session_label, project) of
\* test_session_exist.py:13 and session_exists(xnat2, experiment_label) of
\* migration_report.py:184
ProbeCalls ==
    { <<cfg, label, project>> :
        cfg \in {XNAT1_CFG, XNAT2_CFG}, label \in SessionLabels, project \in Projects }
    \cup { <<cfg, label>> : cfg \in {XNAT1_CFG, XNAT2_CFG}, label \in SessionLabels }

\* the call returns or raises
ProbeReturn ==
    /\ probe.pc = "called"
    /\ probe' = [probe EXCEPT !.pc = "returned", !.result = CallSessionExists(probe.args)]
    /\ UNCHANGED << mainVars, est >>

\* ------------------------------------------------------ specification
\* main at its entry
InitMain ==
    /\ namespace = [name \in GlobalNames |-> "unread"]
    /\ envelope \in Envelopes
    /\ mpc = "open_xnat1"
    /\ abortLine = 0
    /\ mainConn = [sys \in {"xnat1", "xnat2"} |-> "none"]
    /\ experiments_table = <<>>
    /\ experiment_tasks = <<>>
    /\ worker = <<>>
    /\ yielded = {}
    /\ processed_count = 0
    /\ results = <<>>
    /\ stats_csv = NotWritten
    /\ experiments = <<>>
    /\ c = 0
    /\ report_data = <<>>
    /\ report_csv = NotWritten

\* a run of main: estimate_session_size is not called
Init == InitMain /\ est = EstIdle /\ probe = NoProbe

Next ==
    \/ OpenInterface(XNAT1_CFG)
    \/ OpenInterface(XNAT2_CFG)
    \/ Select
    \/ Submit
    \/ \E t \in 1..MaxRows : Start(t)
    \/ \E t \in 1..MaxRows : GetScans(t)
    \/ \E t \in 1..MaxRows : PdbContinue(t)
    \/ \E t \in 1..MaxRows : PdbQuit(t)
    \/ \E t \in 1..MaxRows : GetResources(t)
    \/ \E t \in 1..MaxRows : Finally(t)
    \/ \E t \in 1..MaxRows : Collect(t)
    \/ LoopEnd
    \/ Shutdown
    \/ AfterPool
    \/ ListExperiments
    \/ ReportSession
    \/ WriteReport

Spec == Init /\ [][Next]_vars

\* calls of estimate_session_size on every file set, mode and worker count
EstInit ==
    /\ InitMain /\ probe = NoProbe
    /\ est \in { EstCall(files, use_threads, max_workers) :
                   files \in FileSets, use_threads \in BOOLEAN,
                   max_workers \in WorkerCounts }

EstNext ==
    \/ EstTraverse
    \/ EstSequential
    \/ \E i \in 1..MaxFiles : EstDispatch(i)
    \/ \E i \in 1..MaxFiles : EstComplete(i)
    \/ EstReturn

SpecEstimate == EstInit /\ [][EstNext]_vars

\* calls of session_exists with every target, label and project
ProbeInit ==
    /\ InitMain /\ est = EstIdle
    /\ probe \in { [pc |-> "called", args |-> args, result |-> Ok(FALSE)] :
                     args \in ProbeCalls }

ProbeNext == ProbeReturn

SpecExists == ProbeInit /\ [][ProbeNext]_vars

\* ------------------------------------------------------------ claims
Returned(t) == t \in Futures /\ worker[t].pc = "returned"
\* the line, and the exception, at which worker t left its try block (0: none)
RaisedLine(t) == worker[t].raised[1]
RaisedExc(t) == worker[t].raised[2]
\* main has left the with block of lines 121-136
PoolLeft ==
    \/ mpc \in {"after_pool", "experiments", "report_loop", "done"}
    \/ mpc = "aborted" /\ abortLine >= 126

\* C1: when main has left the pool's with block, results holds exactly one
\* entry per submitted task, whatever the outcome of each task.
C1_OneResultPerTask == PoolLeft => Len(results) = Len(experiment_tasks)

\* C2: a worker in which anything failed (the connection could not be opened,
\* a listing was not ok, a body was malformed, or any other exception) hands
\* its future a result, never an exception, and the result is a row with
\* 'error' set, num_files and total_size_bytes None, and the experiment_id of
\* its task.
C2_FailureGivesDegradedRow ==
    \A t \in Futures :
        (worker[t].pc \in {"finally", "returned"} /\ RaisedLine(t) # 0) =>
            /\ worker[t].ret.ok
            /\ "error" \in DOMAIN worker[t].ret.val
            /\ worker[t].ret.val.error = RaisedExc(t)
            /\ worker[t].ret.val.num_files = None
            /\ worker[t].ret.val.total_size_bytes = None
            /\ worker[t].ret.val.experiment_id = experiment_tasks[t][1]

\* C2 witness: two workers have returned, one after a resource listing that
\* was not ok, the other after a scan listing whose body was not JSON.
C2_Witness ==
    \E t, u \in Futures :
        /\ Returned(t) /\ RaisedLine(t) = 46
        /\ Returned(u) /\ RaisedLine(u) = 37 /\ RaisedExc(u) = "JSONDecodeError"

\* C3 as stated: a worker that has returned has no connection left open.
C3_ReleasedBeforeReturn ==
    \A t \in Futures : Returned(t) => worker[t].thread_xnat_interface # "open"

\* C3 amended: a worker that opened a connection has called disconnect() on
\* it exactly once by the time it returns, on the success path and on every
\* failure path, and the connection is closed unless that disconnect() itself
\* raised; a worker whose connection could not be opened has called
\* disconnect() on nothing and holds no connection.
C3_DisconnectAttempted ==
    \A t \in Futures : Returned(t) =>
        IF RaisedLine(t) = 27
        THEN worker[t].thread_xnat_interface = "None" /\ worker[t].disconnects = 0
        ELSE /\ worker[t].disconnects = 1
             /\ worker[t].thread_xnat_interface = "closed" \/ worker[t].disconnect_error

\* C3 witness: every worker has returned; one returned a success row, one
\* failed after its connection was opened, and both connections are closed.
C3_Witness ==
    /\ \A t \in Futures : Returned(t)
    /\ \E t, u \in Futures :
        /\ RaisedLine(t) = 0 /\ worker[t].thread_xnat_interface = "closed"
        /\ RaisedLine(u) = 35 /\ worker[u].thread_xnat_interface = "closed"

\* what the specification wants summed for an experiment: the field over
\* every resource of every scan, a missing or non-numeric field counting 0
RECURSIVE ExpectedFrom(_, _, _)
ExpectedFrom(resources, key, i) ==
    IF i > Len(resources) THEN 0
    ELSE (IF key \in DOMAIN resources[i] /\ PyInt(resources[i][key]).ok
          THEN PyInt(resources[i][key]).val ELSE 0)
         + ExpectedFrom(resources, key, i + 1)
Expected(e, key) == ExpectedFrom(ResourcesFrom(e, 1), key, 1)

\* every field the resources of e carry is an int
AllFieldsInt(e) ==
    \A i \in 1..Len(ResourcesFrom(e, 1)) :
        \A key \in DOMAIN ResourcesFrom(e, 1)[i] : IsInt(ResourcesFrom(e, 1)[i][key])

\* C4: with servers that answer listings with a ResultSet.Result array, a
\* worker whose connection opened, whose listings were all ok and JSON, and
\* which was let past the debugger, returns num_files and total_size_bytes
\* equal to the sums of file_count and file_size over all resources of all
\* scans, a missing field counting 0.
C4_SumsOverAllResources ==
    \A t \in Futures :
        ( /\ Returned(t) /\ envelope = "ResultSet"
          /\ AllFieldsInt(experiment_tasks[t][1])
          /\ RaisedLine(t) \notin {27, 35, 36, 46}
          /\ RaisedExc(t) # "JSONDecodeError" ) =>
            /\ worker[t].ret.ok
            /\ worker[t].ret.val.num_files = I(Expected(experiment_tasks[t][1], "file_count"))
            /\ worker[t].ret.val.total_size_bytes =
                   I(Expected(experiment_tasks[t][1], "file_size"))

\* the sum of a column over the rows of the workers from i on that raised nothing
RECURSIVE CleanWorkerSum(_, _)
CleanWorkerSum(column, i) ==
    IF i > Len(experiment_tasks) THEN 0
    ELSE (IF RaisedLine(i) = 0 THEN worker[i].ret.val[column].int ELSE 0)
         + CleanWorkerSum(column, i + 1)

\* C5: when exactly one of the N tasks met a fault and main has left the
\* pool, results has N entries, exactly one of them carries an error or
\* failure marker, and the totals are the sums over the other N-1 entries.
C5_OneFaultyTask ==
    ( /\ PoolLeft
      /\ \A t \in Futures : Returned(t)
      /\ Cardinality({t \in Futures : RaisedLine(t) # 0}) = 1 ) =>
        /\ Len(results) = Len(experiment_tasks)
        /\ Cardinality({i \in 1..Len(results) : ~IsSuccessful(results[i])}) = 1
        /\ ColumnSum(successful_results(results), "num_files", 1)
               = CleanWorkerSum("num_files", 1)
        /\ ColumnSum(successful_results(results), "total_size_bytes", 1)
               = CleanWorkerSum("total_size_bytes", 1)

\* C6: once main has left the pool and ended, the sessions of the rows
\* written to the statistics file are the sessions of all the tasks, the
\* failed ones included.
C6_FailedRowsWritten ==
    (PoolLeft /\ mpc \in {"done", "aborted"}) =>
        { stats_csv.rows[i].experiment_id : i \in 1..Len(stats_csv.rows) }
            = { experiment_tasks[t][1] : t \in 1..Len(experiment_tasks) }

\* the keys of a statistics row
StatsKeys == {"project_id", "subject_id", "experiment_id", "num_files", "total_size_bytes"}

\* C7: every row a worker returns on its success path carries, besides the
\* statistics, the flag that says whether the experiment exists on the
\* destination system.
C7_RowCarriesExistenceFlag ==
    \A t \in Futures :
        (Returned(t) /\ RaisedLine(t) = 0) =>
            worker[t].ret.ok /\ DOMAIN worker[t].ret.val \ StatsKeys # {}

\* C8: a missing or non-numeric file_count or file_size counts 0 and raises
\* nothing: a worker whose connection and listings were in order returns the
\* sums of the other fields with no error, and get_session_info never ends
\* main from its lines 90-91.
C8_BadFieldCountsZero ==
    /\ \A t \in Futures :
        (Returned(t) /\ RaisedLine(t) \notin {27, 35, 36, 37, 46, 47}) =>
            /\ worker[t].ret.ok
            /\ "error" \notin DOMAIN worker[t].ret.val
            /\ worker[t].ret.val.num_files = I(Expected(experiment_tasks[t][1], "file_count"))
            /\ worker[t].ret.val.total_size_bytes =
                   I(Expected(experiment_tasks[t][1], "file_size"))
    /\ mpc = "aborted" => abortLine \notin {90, 91}

\* C9: main is never ended by a failure met while one experiment is
\* processed: a remote call or a field of that experiment in the report loop
\* (get_session_info, session_exists).
C9_ExperimentFailureContained ==
    mpc = "aborted" => abortLine \notin {85, 90, 91, 184}

\* C10: no worker ever waits at the debugger prompt.
C10_NoBreakpoint == \A t \in Futures : worker[t].pc # "pdb"

\* worker t has sent a listing request whose answer has not come back
InRemoteCall(t) == t \in Futures /\ worker[t].pc \in {"get_scans", "get_resources"}

\* C11: with a pool of at least two threads and exactly one task stuck in a
\* remote call, main does not stop collecting while a result of another,
\* finished task is still uncollected: every finished task's result is
\* collected before main leaves the as_completed loop.
C11_OthersCollected ==
    ( /\ MAX_WORKERS >= 2
      /\ Cardinality({t \in Futures : InRemoteCall(t)}) = 1
      /\ \A t \in Futures : InRemoteCall(t) \/ Returned(t)
      /\ mpc # "as_completed" ) =>
        \A t \in Futures : Returned(t) => t \in yielded

\* the Interface objects main holds in xnat1 and xnat2 (lines 101, 102)
MainHandles == { Interface(XNAT1_CFG, 0), Interface(XNAT2_CFG, 0) }

\* the connection on which worker t sends its requests and calls disconnect()
\* is the connection of no other task and none of main's
C12_OwnHandle ==
    \A t \in Futures : worker[t].handle # NoHandle =>
        /\ worker[t].handle \notin MainHandles
        /\ \A u \in Futures \ {t} : worker[u].handle # worker[t].handle

\* a step of one pool task changes the frame of no other task and leaves
\* the task descriptors as they were submitted
C12_StepLocal ==
    (Futures # {} /\ Futures' = Futures) =>
        /\ experiment_tasks' = experiment_tasks
        /\ \A t, u \in Futures :
             (worker'[t] # worker[t] /\ worker'[u] # worker[u]) => t = u

\* C12: in every interleaving of the pool, each connection is used by exactly
\* one task (no two tasks ever send a request on, or disconnect, the same
\* connection), and a task writes nothing another task reads: the task
\* descriptors stay as submitted and each step changes one task's frame only.
C12_NoSharedConnection == [] C12_OwnHandle /\ [][C12_StepLocal]_vars

\* C12 witness: two tasks run at the same time on open connections, one
\* between two resource listing requests, the other with its scan listing
\* answered.
C12_Witness ==
    \E t, u \in Futures :
        /\ t # u
        /\ worker[t].pc = "get_resources" /\ worker[t].thread_xnat_interface = "open"
        /\ worker[u].pc = "pdb" /\ worker[u].thread_xnat_interface = "open"
        /\ worker[t].handle # NoHandle /\ worker[u].handle # NoHandle

\* the session query of lines 105-106 has been answered
QueryAnswered ==
    \/ mpc \in {"submit", "as_completed", "shutdown", "after_pool", "experiments",
                "report_loop", "done"}
    \/ mpc = "aborted" /\ abortLine >= 108

\* the tasks have been submitted to the pool (lines 121-124)
Submitted == QueryAnswered /\ mpc # "submit" /\ ~(mpc = "aborted" /\ abortLine < 121)

\* C13: once the session query is answered, each of its rows has become
\* exactly one task descriptor, in order, carrying the session id, project and
\* subject id of the row, whether or not the server sent more columns than
\* the projection asked for; and once the tasks are submitted there is
\* exactly one future, run by one worker frame, per descriptor.
C13_OneTaskPerRow ==
    /\ QueryAnswered =>
         /\ Len(experiment_tasks) = Len(experiments_table)
         /\ \A i \in 1..Len(experiment_tasks) :
              /\ experiment_tasks[i][1] = experiments_table[i].session_id
              /\ experiment_tasks[i][2] = experiments_table[i].project
              /\ experiment_tasks[i][3] = experiments_table[i].subject_id
    /\ Submitted => Futures = 1..Len(experiments_table)

\* a worker task exists only after the session query was answered, and a
\* failed query ends main at once: no task list, no future, neither CSV file
C14_QueryBeforeDispatch ==
    /\ Futures # {} => QueryAnswered
    /\ experiment_tasks # <<>> => QueryAnswered
    /\ abortLine = 106 =>
         /\ mpc = "aborted"
         /\ experiment_tasks = <<>> /\ Futures = {}
         /\ processed_count = 0 /\ results = <<>>
         /\ stats_csv = NotWritten /\ report_csv = NotWritten

\* the answer of the session query and the task list built from it are
\* never replaced
C14_QueryOnce ==
    QueryAnswered =>
        /\ experiments_table' = experiments_table
        /\ experiment_tasks' = experiment_tasks

\* C14: the session query runs once, and is answered before any worker task
\* exists; if it fails, main ends there with no worker dispatched, no task
\* list processed and no file written.
C14_EnumerateOnceUpFront == [] C14_QueryBeforeDispatch /\ [][C14_QueryOnce]_vars

\* C14 witness: both connections are open and the session query has failed.
C14_Witness ==
    /\ mpc = "aborted" /\ abortLine = 106
    /\ mainConn["xnat1"] = "open" /\ mainConn["xnat2"] = "open"

\* the size key of a file's attributes is present and parses
HasParseableSize(attributes) ==
    \E i \in 1..Len(SizeKeys) :
        /\ SizeKeys[i] \in DOMAIN attributes
        /\ \A j \in 1..(i - 1) : SizeKeys[j] \notin DOMAIN attributes
        /\ PyInt(attributes[SizeKeys[i]]).ok

\* C16: for every file set, an estimate that has returned after a successful
\* traversal, in sequential mode or in concurrent mode with 1, 4 or 8
\* workers and whatever the order in which the fetches completed, is the
\* sequential total of the files; it is not negative, and it is the total of
\* the files with a parseable size alone (the others contribute 0).
C16_ConcurrentEqualsSequential ==
    (est.pc = "done" /\ est.traversed) =>
        /\ est.total = SequentialTotal(est.files, 1)
        /\ est.total >= 0
        /\ est.total = SequentialTotal(SelectSeq(est.files, HasParseableSize), 1)

\* C16 witness: a concurrent estimate over three files, one of them without
\* a parseable size, has returned a positive total.
C16_Witness ==
    /\ est.pc = "done" /\ est.use_threads /\ est.traversed
    /\ Len(est.files) = 3 /\ est.total > 0
    /\ \E i \in 1..Len(est.files) : ~HasParseableSize(est.files[i])

\* an experiment with this label is among the experiments of the subjects of
\* the project on the system
ExistsInProject(sys, session_label, project) ==
    \E e \in ExperimentsOn(sys) : ProjectOf(e) = project /\ Label(e) = session_label

\* C17: session_exists(target, session_label, project) returns True exactly
\* when an experiment of the project on the target has that very label, and
\* returns False, raising nothing, otherwise, also for a project without
\* subjects.
C17_ScopedExactMatch ==
    (probe.pc = "returned" /\ Len(probe.args) = 3) =>
        /\ probe.result.ok
        /\ probe.result.val =
             ExistsInProject(System(probe.args[1]), probe.args[2], probe.args[3])

\* the listing requests worker t has sent when its scan listing (line 35) or
\* the resource listing of its k-th scan (line 46) was unsuccessful
RequestsUpTo(t) == IF RaisedLine(t) = 35 THEN 1 ELSE 1 + worker[t].k

\* a worker whose scan listing or resource listing was unsuccessful has sent
\* no request after that one, and returns the error row with null num_files
\* and total_size_bytes whatever it had summed before
C18_NoPartialSums ==
    \A t \in Futures : RaisedLine(t) \in {35, 46} =>
        /\ worker[t].pc \in {"finally", "returned"}
        /\ worker[t].requests = RequestsUpTo(t)
        /\ worker[t].ret.ok
        /\ worker[t].ret.val.num_files = None
        /\ worker[t].ret.val.total_size_bytes = None

\* after an unsuccessful listing, the worker's request count stays
C18_NoFurtherRequest ==
    \A t \in Futures : RaisedLine(t) \in {35, 46} =>
        worker'[t].requests = worker[t].requests

\* C18: the worker fails fast: once the scan listing, or the resource
\* listing of any one scan, comes back unsuccessful the worker sends no
\* further listing request for the experiment, and the row it returns has
\* null numeric fields, not the sums accumulated so far.
C18_FailFast == [] C18_NoPartialSums /\ [][C18_NoFurtherRequest]_vars

\* C18 witness: a worker has summed the resources of its first scan, the
\* resource listing of its second scan was unsuccessful, and it has returned.
C18_Witness ==
    \E t \in Futures :
        /\ Returned(t) /\ RaisedLine(t) = 46 /\ worker[t].k = 2
        /\ worker[t].total_experiment_files > 0
        /\ worker[t].requests = 3

\* the system the session query of line 105 is sent to
EnumeratedOn == System(XNAT1_CFG)

\* C19: every worker sends its listing requests to the system on which the
\* session query listed its experiment id, the source xnat1.
C19_ReadsWhereEnumerated ==
    \A t \in Futures :
        worker[t].handle # NoHandle => System(worker[t].handle[1]) = EnumeratedOn

\* the row has 'error' exactly when both numeric fields are None, and if
\* line 141 classifies it successful both are ints that are not negative
RowWellFormed(r) ==
    /\ ("error" \in DOMAIN r) <=> (r.num_files = None /\ r.total_size_bytes = None)
    /\ ("error" \in DOMAIN r) <=> (r.num_files = None \/ r.total_size_bytes = None)
    /\ IsSuccessful(r) =>
         /\ IsInt(r.num_files) /\ r.num_files.int >= 0
         /\ IsInt(r.total_size_bytes) /\ r.total_size_bytes.int >= 0

\* C20: every row get_experiment_file_stats returns has the 'error' key if
\* and only if num_files and total_size_bytes are both None; so every entry
\* that line 141 classifies as successful carries non-negative ints in both,
\* and the totals of lines 148-149 are never summed over a None.
C20_ErrorIffNull ==
    /\ \A t \in Futures :
         worker[t].pc \in {"finally", "returned"} =>
             worker[t].ret.ok /\ RowWellFormed(worker[t].ret.val)
    /\ \A i \in 1..Len(results) : results[i] # None => RowWellFormed(results[i])
    /\ \A i \in 1..Len(stats_csv.rows) : IsSuccessful(stats_csv.rows[i])

\* C20 witness: two workers have returned, one a row with positive sums and
\* no 'error', the other an error row.
C20_Witness ==
    \E t, u \in Futures :
        /\ Returned(t) /\ IsSuccessful(worker[t].ret.val)
        /\ worker[t].ret.val.num_files.int > 0
        /\ worker[t].ret.val.total_size_bytes.int > 0
        /\ Returned(u) /\ "error" \in DOMAIN worker[u].ret.val

====
